---- MODULE Spec2Model ----
(***************************************************************************)
(* Cloud asset discovery (cloud_discovery.py): candidate generation,       *)
(* endpoint probing, the worker pool of process_domain and the report      *)
(* rendering of main.                                                      *)
(*                                                                         *)
(* Strings are sequences of one-character strings, so that replace, lower, *)
(* split, join, format, slicing and substring search are computed the way  *)
(* Python computes them.                                                   *)
(***************************************************************************)
EXTENDS Integers, Sequences, FiniteSets, TLC

(***************************************************************************)
(* Bounds of the model                                                     *)
(***************************************************************************)
\* longest domain string enumerated exhaustively over GenAlphabet
MaxDomainLen == 5
\* number of probe tasks run one after the other in SpecProbe
MaxProbeTasks == 2
\* longest transport error message
MaxMsgLen == 52
\* domains given to main in SpecPool
MaxDomains == 2
\* most candidates generate_bucket_names returns for a domain in SpecPool
MaxBuckets == 2
\* most calls of a run that the network lets end in a report entry (SpecPool)
MaxHits == 2

(***************************************************************************)
(* String primitives                                                       *)
(***************************************************************************)
UpperLetters ==
  <<"A", "B", "C", "D", "E", "F", "G", "H", "I", "J", "K", "L", "M",
    "N", "O", "P", "Q", "R", "S", "T", "U", "V", "W", "X", "Y", "Z">>

LowerLetters ==
  <<"a", "b", "c", "d", "e", "f", "g", "h", "i", "j", "k", "l", "m",
    "n", "o", "p", "q", "r", "s", "t", "u", "v", "w", "x", "y", "z">>

\* str.lower() on one character
LowerChar(c) ==
  IF \E i \in 1..26 : UpperLetters[i] = c
    THEN LowerLetters[CHOOSE i \in 1..26 : UpperLetters[i] = c]
    ELSE c

\* str.lower()
Lower(s) == [i \in 1..Len(s) |-> LowerChar(s[i])]

\* str.replace(old, new) for one-character old and new
Replace(s, old, new) == [i \in 1..Len(s) |-> IF s[i] = old THEN new ELSE s[i]]

\* str.split(sep) for a one-character separator: one part more than there
\* are separators, empty parts included
Split(s, sep) ==
  LET idx == {i \in 1..Len(s) : s[i] = sep}
      n == Cardinality(idx)
      pos(k) == CHOOSE i \in idx : Cardinality({j \in idx : j < i}) = k - 1
  IN  [k \in 1..(n + 1) |->
         SubSeq(s, IF k = 1 THEN 1 ELSE pos(k - 1) + 1,
                   IF k = n + 1 THEN Len(s) ELSE pos(k) - 1)]

RECURSIVE Join(_, _)
\* sep.join(parts), computed by halves
Join(parts, sep) ==
  IF parts = <<>> THEN <<>>
  ELSE IF Len(parts) = 1 THEN parts[1]
  ELSE LET h == Len(parts) \div 2
       IN  Join(SubSeq(parts, 1, h), sep) \o sep
             \o Join(SubSeq(parts, h + 1, Len(parts)), sep)

\* fmt.format(x) for a pattern with one slot, kept as <<prefix, suffix>>
Format(fmt, x) == fmt[1] \o x \o fmt[2]

\* s[:n]
Slice(s, n) == SubSeq(s, 1, IF Len(s) < n THEN Len(s) ELSE n)

(***************************************************************************)
(* Configuration tables                                                    *)
(***************************************************************************)
\* BUCKET_FORMATS: each pattern as <<text before the slot, text after it>>
BUCKET_FORMATS ==
  << 
     <<<<>>, <<>>>>,
     <<<<>>, <<"-", "a", "s", "s", "e", "t", "s">>>>,
     <<<<>>, <<"-", "b", "a", "c", "k", "u", "p">>>>,
     <<<<>>, <<"-", "d", "a", "t", "a">>>>,
     <<<<>>, <<"-", "d", "e", "v">>>>,
     <<<<>>, <<"-", "s", "t", "a", "g", "i", "n", "g">>>>,
     <<<<>>, <<"-", "p", "r", "o", "d">>>>,
     <<<<>>, <<"-", "t", "e", "s", "t">>>>,
     <<<<>>, <<"-", "u", "p", "l", "o", "a", "d", "s">>>>,
     <<<<>>, <<"-", "m", "e", "d", "i", "a">>>>,
     <<<<>>, <<"-", "s", "t", "a", "t", "i", "c">>>>,
     <<<<>>, <<"-", "c", "d", "n">>>>,
     <<<<>>, <<"-", "s", "t", "o", "r", "a", "g", "e">>>>,
     <<<<"a", "s", "s", "e", "t", "s", "-">>, <<>>>>,
     <<<<"d", "a", "t", "a", "-">>, <<>>>>,
     <<<<"d", "e", "v", "-">>, <<>>>>,
     <<<<"p", "r", "o", "d", "-">>, <<>>>>,
     <<<<"s", "t", "a", "g", "i", "n", "g", "-">>, <<>>>>,
     <<<<>>, <<"-", "b", "u", "c", "k", "e", "t">>>>,
     <<<<"b", "u", "c", "k", "e", "t", "-">>, <<>>>>,
     <<<<>>, <<"-", "s", "3">>>>,
     <<<<"s", "3", "-">>, <<>>>>,
     <<<<>>, <<"-", "b", "l", "o", "b">>>>,
     <<<<"b", "l", "o", "b", "-">>, <<>>>>,
     <<<<>>, <<"-", "g", "c", "s">>>>,
     <<<<"g", "c", "s", "-">>, <<>>>>,
     <<<<>>, <<"-", "a", "z", "u", "r", "e">>>>,
     <<<<"a", "z", "u", "r", "e", "-">>, <<>>>>
  >>

(***************************************************************************)
(* generate_bucket_names                                                   *)
(***************************************************************************)
\* the slice limit of the returned list
MaxNames == 100

\* domain.replace('.', '-').replace('_', '-').lower()
DomainClean(domain) == Lower(Replace(Replace(domain, ".", "-"), "_", "-"))

\* domain.split('.')
Parts(domain) == Split(domain, ".")

\* '-'.join(parts[:-1])
WithoutTld(parts) == Join(SubSeq(parts, 1, Len(parts) - 1), <<"-">>)

\* the arguments of the calls names.add(...), in the order of the calls
Added(domain) ==
  LET domain_clean == DomainClean(domain)
      parts == Parts(domain)
      n == Len(BUCKET_FORMATS)
  IN  <<domain_clean>>
        \o (IF Len(parts) > 1 THEN <<WithoutTld(parts)>> ELSE <<>>)
        \o SelectSeq(parts, LAMBDA part : Len(part) > 3)
        \o (IF Len(parts) > 1
              THEN [i \in 1..(2 * n) |->
                      IF i % 2 = 1
                        THEN Format(BUCKET_FORMATS[(i + 1) \div 2], domain_clean)
                        ELSE Format(BUCKET_FORMATS[i \div 2], WithoutTld(parts))]
              ELSE [i \in 1..n |-> Format(BUCKET_FORMATS[i], domain_clean)])

\* the set `names` when the slice is taken
Names(domain) == LET added == Added(domain) IN {added[i] : i \in 1..Len(added)}

\* list(names): each member of the set once.  The order of the list is not
\* modelled; the members are listed in the order they were first added.
ListOf(added) ==
  LET idx == [i \in 1..Len(added) |-> i]
      first == SelectSeq(idx, LAMBDA i : \A j \in 1..(i - 1) : added[j] # added[i])
  IN  [k \in 1..Len(first) |-> added[first[k]]]

RECURSIVE KSubsets(_, _)
\* the subsets of S with exactly k members
KSubsets(S, k) ==
  IF k = 0 THEN {{}}
  ELSE UNION {{T \cup {x} : T \in KSubsets(S \ {x}, k - 1)} : x \in S}

\* variant: the slice is missing
TruncateNoLimit(list) == {list}

\* list(names)[:100].  A set of strings is iterated in hash order, which
\* differs from one interpreter run to the next, so any MaxNames members can
\* be the ones in front of the slice.
Truncate(list) ==
  IF Len(list) <= MaxNames THEN {list}
  ELSE {SelectSeq(list, LAMBDA x : x \notin D) :
          D \in KSubsets({list[i] : i \in 1..Len(list)}, Len(list) - MaxNames)}

\* the lists a call generate_bucket_names(domain) can return
generate_bucket_names(domain) == Truncate(ListOf(Added(domain)))

(***************************************************************************)
(* Inputs of the candidate generator                                       *)
(***************************************************************************)
GenAlphabet == {"a", "B", ".", "_"}

Digit4(k) == <<"a", "b", "c", "d">>[k + 1]

\* pairwise distinct labels of four characters
Label(i) == <<"l", Digit4((i \div 16) % 4), Digit4((i \div 4) % 4), Digit4(i % 4)>>

\* a domain of n distinct labels, each longer than 3 characters
LongDomain(n) == Join([i \in 1..n |-> Label(i)], <<".">>)

\* the least number of distinct long labels with which `names` outgrows the
\* slice: the two unstripped forms and 2 * 28 - 2 further pattern results
OverflowLabels == MaxNames - 2 * Len(BUCKET_FORMATS) + 1

ExampleDomains ==
  { <<"a", "c", "m", "e", ".", "i", "o">>,
    <<"A", "c", "m", "e", ".", "i", "o">>,
    <<"m", "y", "_", "a", "p", "p", ".", "i", "o">>,
    <<"e", "x", "a", "m", "p", "l", "e", ".", "c", "o", "m">> }

GenDomains ==
  UNION {[1..n -> GenAlphabet] : n \in 0..MaxDomainLen}
    \cup ExampleDomains
    \cup {LongDomain(OverflowLabels - 1), LongDomain(OverflowLabels)}

(***************************************************************************)
(* Python values of mixed type                                             *)
(***************************************************************************)
\* an int
PyInt(n) == [t |-> "int", v |-> n]

\* a str
PyStr(s) == [t |-> "str", v |-> s]

\* a == b
PyEq(a, b) == a.t = b.t /\ a.v = b.v

\* x in list
PyIn(x, list) == \E i \in 1..Len(list) : PyEq(x, list[i])

\* None; like None it is falsy
None == <<>>

\* truth value of a check_endpoint result: None is false, a 5-tuple is true
Truthy(r) == r # None

(***************************************************************************)
(* check_endpoint                                                          *)
(***************************************************************************)
S_PUBLIC_LISTING == <<"P", "U", "B", "L", "I", "C", "_", "L", "I", "S", "T", "I", "N", "G">>
S_PUBLIC_ACCESS == <<"P", "U", "B", "L", "I", "C", "_", "A", "C", "C", "E", "S", "S">>
S_PRIVATE == <<"P", "R", "I", "V", "A", "T", "E">>
S_REDIRECT == <<"R", "E", "D", "I", "R", "E", "C", "T">>
S_ERROR == <<"E", "R", "R", "O", "R">>
S_ListBucketResult == <<"L", "i", "s", "t", "B", "u", "c", "k", "e", "t", "R", "e", "s", "u", "l", "t">>
S_Contents == <<"C", "o", "n", "t", "e", "n", "t", "s">>

\* pat in text (substring test), pat not empty
Contains(text, pat) ==
  \E i \in 1..(Len(text) - Len(pat) + 1) : SubSeq(text, i, i + Len(pat) - 1) = pat

\* headers.get(key, '')
HeaderGet(headers, key) == IF key \in DOMAIN headers THEN headers[key] ELSE <<>>

\* the except branch: (name, url, "ERROR", str(e)[:50], "")
OnRequestException(name, url, e) ==
  <<name, url, PyStr(S_ERROR), Slice(e, 50), <<>>>>

\* variant: the GET is issued after a 403 as well
NeedsGetOn403(status) == status \in {200, 403}

\* if status == 200: the branch that issues the GET
NeedsGet(status) == status = 200

\* variant: 308 is missing from the redirect family
OnHeadNo308(name, url, resp) ==
  LET status == resp.status_code
  IN  IF status = 403
        THEN <<name, url, PyInt(status), S_PRIVATE, HeaderGet(resp.headers, "x-amz-error-code")>>
      ELSE IF status = 404
        THEN None
      ELSE IF status \in {301, 302, 307}
        THEN <<name, url, PyInt(status), S_REDIRECT, HeaderGet(resp.headers, "Location")>>
      ELSE IF status \in {400, 401, 500, 503}
        THEN <<name, url, PyInt(status), S_ERROR, HeaderGet(resp.headers, "Server")>>
      ELSE None

\* the branches taken on the HEAD response when its status is not 200
OnHead(name, url, resp) ==
  LET status == resp.status_code
  IN  IF status = 403
        THEN <<name, url, PyInt(status), S_PRIVATE, HeaderGet(resp.headers, "x-amz-error-code")>>
      ELSE IF status = 404
        THEN None
      ELSE IF status \in {301, 302, 307, 308}
        THEN <<name, url, PyInt(status), S_REDIRECT, HeaderGet(resp.headers, "Location")>>
      ELSE IF status \in {400, 401, 500, 503}
        THEN <<name, url, PyInt(status), S_ERROR, HeaderGet(resp.headers, "Server")>>
      ELSE None

\* the status == 200 branch once the GET has returned
OnGet(name, url, resp, list_resp) ==
  IF Contains(list_resp.text, S_ListBucketResult) \/ Contains(list_resp.text, S_Contents)
    THEN <<name, url, PyInt(resp.status_code), S_PUBLIC_LISTING,
           HeaderGet(list_resp.headers, "Content-Type")>>
    ELSE <<name, url, PyInt(resp.status_code), S_PUBLIC_ACCESS,
           HeaderGet(resp.headers, "Content-Type")>>

(***************************************************************************)
(* main: the rendering loop                                                *)
(***************************************************************************)
PRINT_STATUSES ==
  <<PyInt(200), PyInt(301), PyInt(302), PyInt(307), PyInt(308), PyInt(403)>>

\* variant: status 500 is printed as well
PrintableWithErrors(result) == PyIn(result[3], PRINT_STATUSES \o <<PyInt(500)>>)

\* status in [200, 301, 302, 307, 308, 403]
Printable(result) == PyIn(result[3], PRINT_STATUSES)

\* the entries main prints, in the order it prints them
Render(all) == SelectSeq(all, Printable)

(***************************************************************************)
(* What the network can answer                                             *)
(***************************************************************************)
Statuses == {200, 204, 301, 302, 303, 307, 308, 400, 401, 403, 404, 418, 500, 502, 503}

\* header values are strings like every other str
NoHeaders == [k \in {} |-> <<>>]

AllHeaders ==
  [k \in {"Content-Type", "x-amz-error-code", "Location", "Server"} |->
     IF k = "Content-Type" THEN <<"t", "e", "x", "t", "/", "x", "m", "l">>
     ELSE IF k = "x-amz-error-code" THEN <<"A", "c", "c", "e", "s", "s", "D", "e", "n", "i", "e", "d">>
     ELSE IF k = "Location" THEN <<"/", "i", "n", "d", "e", "x">>
     ELSE <<"A", "m", "a", "z", "o", "n", "S", "3">>]

ListHeaders == [k \in {"Content-Type"} |-> <<"t", "e", "x", "t", "/", "h", "t", "m", "l">>]

HeadResponses == [status_code : Statuses, headers : {NoHeaders, AllHeaders}]

Bodies ==
  { <<>>,
    <<"<", "L", "i", "s", "t", "B", "u", "c", "k", "e", "t", "R", "e", "s", "u", "l", "t", ">">>,
    <<"{", "\"", "C", "o", "n", "t", "e", "n", "t", "s", "\"", ":", "[", "]", "}">>,
    <<"c", "o", "n", "t", "e", "n", "t", "s">>,
    <<"A", "c", "c", "e", "s", "s", "D", "e", "n", "i", "e", "d">>,
    <<"L", "i", "s", "t", "B", "u", "c", "k", "e", "t", "R", "e", "s", "u", "l">> }

GetResponses == [text : Bodies, headers : {NoHeaders, ListHeaders}]

\* a message whose characters depend on their position
Msg(n) == [i \in 1..n |-> <<"0", "1", "2", "3", "4", "5", "6", "7", "8", "9">>[(i % 10) + 1]]

\* str(e) of the RequestException raised by a request
Messages == {Msg(n) : n \in {0, 1, 49, 50, 51, MaxMsgLen}}

(***************************************************************************)
(* Provider table                                                          *)
(***************************************************************************)
\* ENDPOINTS in insertion order; each template as <<text before the slot,
\* text after it>>
ENDPOINTS ==
  << [name |-> "aws_s3", fmt |-> <<"http://", ".s3.amazonaws.com">>],
     [name |-> "aws_s3_https", fmt |-> <<"https://", ".s3.amazonaws.com">>],
     [name |-> "aws_s3_website", fmt |-> <<"http://", ".s3-website-us-east-1.amazonaws.com">>],
     [name |-> "aws_s3_website_eu", fmt |-> <<"http://", ".s3-website-eu-west-1.amazonaws.com">>],
     [name |-> "digitalocean", fmt |-> <<"https://", ".digitaloceanspaces.com">>],
     [name |-> "google", fmt |-> <<"https://storage.googleapis.com/", "">>],
     [name |-> "azure", fmt |-> <<"https://", ".blob.core.windows.net">>],
     [name |-> "backblaze", fmt |-> <<"https://", ".s3.us-west-004.backblazeb2.com">>],
     [name |-> "oracle", fmt |-> <<"https://", ".objectstorage.us-ashburn-1.oci.customer-oci.com">>],
     [name |-> "linode", fmt |-> <<"https://", ".us-east-1.linodeobjects.com">>] >>

\* f"{endpoint_name}:{bucket}", kept as its pieces
TaskName(endpoint_name, bucket) == <<endpoint_name, ":", bucket>>

\* endpoint_fmt.format(bucket), kept as its pieces
TaskUrl(endpoint_fmt, bucket) == <<endpoint_fmt[1], bucket, endpoint_fmt[2]>>

(***************************************************************************)
(* State                                                                   *)
(***************************************************************************)
VARIABLES
  gdomain,   \* generator: the domain both runs are given
  gpc,       \* generator: "idle", "start", "ran1", "done"
  names1,    \* generator: list returned by the first run
  names2,    \* generator: list returned by the second run
  ptask,     \* probe: number of check_endpoint calls made so far
  ppc,       \* probe: "off", "idle", "head", "get", "returned", "rendered"
  pname,     \* probe: argument name of the running call
  purl,      \* probe: argument url of the running call
  presp,     \* probe: <<resp>> once the HEAD has answered, else <<>>
  plist,     \* probe: <<list_resp>> once the GET has answered, else <<>>
  pexc,      \* probe: <<str(e)>> of the RequestException caught, else <<>>
  preqs,     \* probe: requests issued by the running call, in order
  pret,      \* probe: value returned by the call
  presults,  \* probe: results / all_results accumulated so far
  pprinted,  \* probe: entries printed by main's last loop
  mpc,       \* pool: main is "off", at "next" domain, in "submit", in "collect", "rendered"
  dom,       \* pool: index of the domain main is processing (0 before the first)
  nbuckets,  \* pool: len(bucket_names) of each domain
  submitted, \* pool: per domain, executor.submit calls made
  started,   \* pool: per domain, work items taken off the executor's queue
  running,   \* pool: per domain, check_endpoint calls in flight
  pending,   \* pool: per domain, bag of results of finished futures not yet yielded
  yielded,   \* pool: per domain, futures as_completed has yielded
  returned,  \* pool: per domain, bag of the report entries returned by calls
  results,   \* pool: per domain, the list `results` of process_domain
  all_results, \* pool: main's accumulated list
  printed    \* pool: entries printed by main's last loop

genVars == <<gdomain, gpc, names1, names2>>
probeVars == <<ptask, ppc, pname, purl, presp, plist, pexc, preqs, pret, presults, pprinted>>
poolVars ==
  <<mpc, dom, nbuckets, submitted, started, running,
    pending, yielded, returned, results, all_results, printed>>
vars == <<genVars, probeVars, poolVars>>

IdleGen == gdomain = <<>> /\ gpc = "idle" /\ names1 = <<>> /\ names2 = <<>>

IdleProbe ==
  /\ ptask = 0 /\ ppc = "off"
  /\ pname = None /\ purl = None /\ presp = <<>> /\ plist = <<>>
  /\ pexc = <<>> /\ preqs = <<>> /\ pret = None
  /\ presults = <<>> /\ pprinted = <<>>

IdlePool ==
  /\ mpc = "off" /\ dom = 0 /\ nbuckets = <<>>
  /\ submitted = <<>> /\ started = <<>> /\ running = <<>>
  /\ pending = <<>> /\ yielded = <<>> /\ returned = <<>>
  /\ results = <<>> /\ all_results = <<>> /\ printed = <<>>

(***************************************************************************)
(* Two runs of generate_bucket_names on one domain                         *)
(***************************************************************************)
InitGen ==
  /\ gdomain \in GenDomains
  /\ gpc = "start"
  /\ names1 = <<>>
  /\ names2 = <<>>
  /\ IdleProbe
  /\ IdlePool

GenRun1 ==
  /\ gpc = "start"
  /\ names1' \in generate_bucket_names(gdomain)
  /\ gpc' = "ran1"
  /\ UNCHANGED <<gdomain, names2, probeVars, poolVars>>

GenRun2 ==
  /\ gpc = "ran1"
  /\ names2' \in generate_bucket_names(gdomain)
  /\ gpc' = "done"
  /\ UNCHANGED <<gdomain, names1, probeVars, poolVars>>

NextGen == GenRun1 \/ GenRun2

SpecGen == InitGen /\ [][NextGen]_vars

(***************************************************************************)
(* Probe tasks run one after the other: check_endpoint, the collection of  *)
(* its result by process_domain and main, and the rendering loop           *)
(***************************************************************************)
\* providers and candidates the calls are made for
ProbeEndpoints == {1, 6}
ProbeBuckets == {<<"a", "c", "m", "e">>}

InitProbe ==
  /\ IdleGen
  /\ IdlePool
  /\ ptask = 0 /\ ppc = "idle"
  /\ pname = None /\ purl = None /\ presp = <<>> /\ plist = <<>>
  /\ pexc = <<>> /\ preqs = <<>> /\ pret = None
  /\ presults = <<>> /\ pprinted = <<>>

\* executor runs check_endpoint(f"{endpoint_name}:{bucket}", url)
ProbeCall ==
  /\ ppc = "idle"
  /\ ptask < MaxProbeTasks
  /\ \E e \in ProbeEndpoints, bucket \in ProbeBuckets :
       /\ pname' = TaskName(ENDPOINTS[e].name, bucket)
       /\ purl' = TaskUrl(ENDPOINTS[e].fmt, bucket)
  /\ ptask' = ptask + 1
  /\ ppc' = "head"
  /\ UNCHANGED <<presp, plist, pexc, preqs, pret, presults, pprinted, genVars, poolVars>>

\* requests.head(url, timeout=5, allow_redirects=True) and the branch on its
\* status, or the except branch
ProbeHead ==
  /\ ppc = "head"
  /\ preqs' = Append(preqs, <<"HEAD", purl>>)
  /\ \/ \E resp \in HeadResponses :
          /\ presp' = <<resp>>
          /\ IF NeedsGet(resp.status_code)
               THEN ppc' = "get" /\ pret' = pret
               ELSE ppc' = "returned" /\ pret' = OnHead(pname, purl, resp)
          /\ pexc' = pexc
     \/ \E e \in Messages :
          /\ pexc' = <<e>>
          /\ pret' = OnRequestException(pname, purl, e)
          /\ ppc' = "returned"
          /\ presp' = presp
  /\ UNCHANGED <<ptask, pname, purl, plist, presults, pprinted, genVars, poolVars>>

\* requests.get(url, timeout=5) and the marker test, or the except branch
ProbeGet ==
  /\ ppc = "get"
  /\ preqs' = Append(preqs, <<"GET", purl>>)
  /\ \/ \E list_resp \in GetResponses :
          /\ plist' = <<list_resp>>
          /\ pret' = OnGet(pname, purl, presp[1], list_resp)
          /\ pexc' = pexc
     \/ \E e \in Messages :
          /\ pexc' = <<e>>
          /\ pret' = OnRequestException(pname, purl, e)
          /\ plist' = plist
  /\ ppc' = "returned"
  /\ UNCHANGED <<ptask, pname, purl, presp, presults, pprinted, genVars, poolVars>>

\* process_domain: result = future.result(); if result: results.append(result)
\* (main then extends all_results by results)
ProbeCollect ==
  /\ ppc = "returned"
  /\ presults' = IF Truthy(pret) THEN Append(presults, pret) ELSE presults
  /\ ppc' = "idle"
  /\ pname' = None /\ purl' = None /\ presp' = <<>> /\ plist' = <<>>
  /\ pexc' = <<>> /\ preqs' = <<>> /\ pret' = None
  /\ UNCHANGED <<ptask, pprinted, genVars, poolVars>>

\* main: the loop over all_results that prints
ProbeRender ==
  /\ ppc = "idle"
  /\ ptask = MaxProbeTasks
  /\ pprinted' = Render(presults)
  /\ ppc' = "rendered"
  /\ UNCHANGED <<ptask, pname, purl, presp, plist, pexc, preqs, pret, presults, genVars, poolVars>>

NextProbe == ProbeCall \/ ProbeHead \/ ProbeGet \/ ProbeCollect \/ ProbeRender

SpecProbe == InitProbe /\ [][NextProbe]_vars

(***************************************************************************)
(* main and process_domain: the worker pool.                               *)
(*                                                                         *)
(* The tasks of a domain differ only in their label, so they are counted   *)
(* instead of named: `running` is the number of calls in flight and         *)
(* `pending` the bag of the results of finished futures.  The executor's    *)
(* queue is first-in first-out, so the tasks taken off it are those with    *)
(* submission index 1..started.  A call of check_endpoint touches no shared *)
(* state, so it is one step from the moment a worker takes it (Start) to    *)
(* its return (Finish).                                                     *)
(***************************************************************************)
\* ThreadPoolExecutor(max_workers=10)
max_workers == 10

\* the candidates of the d-th domain
Bucket(d) == <<"bucket of domain", d>>

\* number of futures of a domain: one per (bucket, endpoint) pair
NumTasks(d) == nbuckets[d] * Len(ENDPOINTS)

\* arguments of the call of a task of domain d
AnyName(d) == TaskName("*", Bucket(d))
AnyUrl(d) == TaskUrl(<<"*", "*">>, Bucket(d))

\* what the network answers in SpecPool
PoolHeadResponses == [status_code : {204, 403, 404}, headers : {NoHeaders}]
PoolGetResponses == [text : {<<>>}, headers : {NoHeaders}]
PoolMessages == {Msg(1)}

\* the values a call check_endpoint(name, url) can return
check_endpoint(name, url) ==
  {OnHead(name, url, resp) : resp \in {r \in PoolHeadResponses : ~NeedsGet(r.status_code)}}
    \cup {OnGet(name, url, resp, list_resp) :
            resp \in {r \in PoolHeadResponses : NeedsGet(r.status_code)},
            list_resp \in PoolGetResponses}
    \cup {OnRequestException(name, url, e) : e \in PoolMessages}

EmptyBag == [x \in {} |-> 0]

\* a bag with one more copy of r
BagAdd(B, r) ==
  IF r \in DOMAIN B THEN [B EXCEPT ![r] = @ + 1]
  ELSE [x \in DOMAIN B \cup {r} |-> IF x = r THEN 1 ELSE B[x]]

\* a bag with one copy of r less
BagRemove(B, r) ==
  IF B[r] > 1 THEN [B EXCEPT ![r] = @ - 1]
  ELSE [x \in DOMAIN B \ {r} |-> B[x]]

\* number of members of a bag
RECURSIVE BagSize(_)
BagSize(B) ==
  IF DOMAIN B = {} THEN 0
  ELSE LET x == CHOOSE y \in DOMAIN B : TRUE
       IN  B[x] + BagSize([z \in DOMAIN B \ {x} |-> B[z]])

\* report entries returned by the calls of all domains so far (bounded by
\* MaxHits in Finish)
TotalReturned ==
  LET RECURSIVE Sum(_)
      Sum(d) == IF d = 0 THEN 0 ELSE BagSize(returned[d]) + Sum(d - 1)
  IN  Sum(MaxDomains)

\* variant: one thread more than max_workers
WorkerAvailableOffByOne(d) == running[d] <= max_workers

\* the executor has a thread free for the next queued work item
WorkerAvailable(d) == running[d] < max_workers

\* variant: only the first entry is kept
CollectedFirstOnly(list, result) ==
  IF Truthy(result) /\ list = <<>> THEN Append(list, result) ELSE list

\* if result: results.append(result)
Collected(list, result) == IF Truthy(result) THEN Append(list, result) ELSE list

\* variant: the loop is left after the first future
AsCompletedFirst(d) == yielded[d] >= 1

\* as_completed(futures) has yielded every future
AsCompletedExhausted(d) == yielded[d] = NumTasks(d)

InitPool ==
  /\ IdleGen
  /\ IdleProbe
  /\ mpc = "next"
  /\ dom = 0
  /\ nbuckets = [d \in 1..MaxDomains |-> MaxBuckets]
  /\ submitted = [d \in 1..MaxDomains |-> 0]
  /\ started = [d \in 1..MaxDomains |-> 0]
  /\ running = [d \in 1..MaxDomains |-> 0]
  /\ pending = [d \in 1..MaxDomains |-> EmptyBag]
  /\ yielded = [d \in 1..MaxDomains |-> 0]
  /\ returned = [d \in 1..MaxDomains |-> EmptyBag]
  /\ results = [d \in 1..MaxDomains |-> <<>>]
  /\ all_results = <<>>
  /\ printed = <<>>

\* main: the next iteration of `for domain in domains`; process_domain
\* generates the bucket names and creates the executor
ProcessDomain ==
  /\ mpc = "next"
  /\ dom < MaxDomains
  /\ dom' = dom + 1
  /\ mpc' = "submit"
  /\ UNCHANGED <<nbuckets, submitted, started, running, pending, yielded,
                 returned, results, all_results, printed, genVars, probeVars>>

\* process_domain: one executor.submit(check_endpoint, ...); after the last
\* one the loop over as_completed begins
Submit ==
  /\ mpc = "submit"
  /\ submitted' = [submitted EXCEPT ![dom] = @ + 1]
  /\ mpc' = IF submitted'[dom] = NumTasks(dom) THEN "collect" ELSE "submit"
  /\ UNCHANGED <<dom, nbuckets, started, running, pending, yielded,
                 returned, results, all_results, printed, genVars, probeVars>>

\* a worker thread takes the oldest queued work item and calls check_endpoint
Start ==
  \E d \in 1..MaxDomains :
    /\ started[d] < submitted[d]
    /\ WorkerAvailable(d)
    /\ started' = [started EXCEPT ![d] = @ + 1]
    /\ running' = [running EXCEPT ![d] = @ + 1]
    /\ UNCHANGED <<mpc, dom, nbuckets, submitted, pending, yielded,
                   returned, results, all_results, printed, genVars, probeVars>>

\* a call of check_endpoint returns; its future is done
Finish ==
  \E d \in 1..MaxDomains :
    /\ running[d] > 0
    /\ \E r \in check_endpoint(AnyName(d), AnyUrl(d)) :
         /\ Truthy(r) => TotalReturned < MaxHits
         /\ pending' = [pending EXCEPT ![d] = BagAdd(@, r)]
         /\ returned' = [returned EXCEPT ![d] = IF Truthy(r) THEN BagAdd(@, r) ELSE @]
    /\ running' = [running EXCEPT ![d] = @ - 1]
    /\ UNCHANGED <<mpc, dom, nbuckets, submitted, started, yielded,
                   results, all_results, printed, genVars, probeVars>>

\* process_domain: as_completed yields a finished future;
\* result = future.result(); if result: results.append(result)
Yield ==
  /\ mpc = "collect"
  /\ \E r \in DOMAIN pending[dom] :
       /\ pending' = [pending EXCEPT ![dom] = BagRemove(@, r)]
       /\ results' = [results EXCEPT ![dom] = Collected(@, r)]
  /\ yielded' = [yielded EXCEPT ![dom] = @ + 1]
  /\ UNCHANGED <<mpc, dom, nbuckets, submitted, started, running,
                 returned, all_results, printed, genVars, probeVars>>

\* process_domain: as_completed is exhausted, the with block exits and the
\* list is returned; main: all_results.extend(results)
Return ==
  /\ mpc = "collect"
  /\ AsCompletedExhausted(dom)
  /\ all_results' = all_results \o results[dom]
  /\ mpc' = "next"
  /\ UNCHANGED <<dom, nbuckets, submitted, started, running, pending, yielded,
                 returned, results, printed, genVars, probeVars>>

\* main: the loop over all_results that prints
RenderAll ==
  /\ mpc = "next"
  /\ dom = MaxDomains
  /\ printed' = Render(all_results)
  /\ mpc' = "rendered"
  /\ UNCHANGED <<dom, nbuckets, submitted, started, running, pending, yielded,
                 returned, results, all_results, genVars, probeVars>>

NextPool ==
  ProcessDomain \/ Submit \/ Start \/ Finish \/ Yield \/ Return \/ RenderAll

SpecPool == InitPool /\ [][NextPool]_vars

(***************************************************************************)
(* Properties                                                              *)
(***************************************************************************)
Range(s) == {s[i] : i \in 1..Len(s)}

NoDuplicates(s) == \A i, j \in 1..Len(s) : i # j => s[i] # s[j]

RECURSIVE SeqBag(_)
\* the bag of the members of a list
SeqBag(s) == IF s = <<>> THEN EmptyBag ELSE BagAdd(SeqBag(Tail(s)), Head(s))

\* the domain whose candidate an entry of SpecPool is about
DomainOf(entry) == entry[1][3][2]

\* process_domain has returned for the d-th domain
HasReturned(d) == dom > d \/ (dom = d /\ mpc \in {"next", "rendered"})

\* calls in flight, over all executors
RECURSIVE InFlightUpTo(_)
InFlightUpTo(d) == IF d = 0 THEN 0 ELSE running[d] + InFlightUpTo(d - 1)
InFlight == InFlightUpTo(MaxDomains)

\* C1: at every moment at most 10 probe tasks are in flight (check_endpoint
\* started and not yet returned), however many tasks were submitted.
C1_AtMostTenInFlight == InFlight <= 10

\* C1 witness: ten calls are in flight while a submitted task still waits
\* in the queue.
C1_PoolFullWitness ==
  \E d \in 1..MaxDomains : running[d] = 10 /\ started[d] < submitted[d]

\* C2: when process_domain has returned, every task of the domain has been
\* submitted, started and finished and its future yielded, and the returned
\* list holds exactly the report entries the calls returned, each once,
\* and nothing for a call that returned None (404 or an unlisted status).
C2_EveryResultOnce ==
  \A d \in 1..MaxDomains :
    HasReturned(d) =>
      /\ submitted[d] = NumTasks(d)
      /\ started[d] = NumTasks(d)
      /\ running[d] = 0
      /\ yielded[d] = NumTasks(d)
      /\ pending[d] = EmptyBag
      /\ \A i \in 1..Len(results[d]) : Truthy(results[d][i])
      /\ SeqBag(results[d]) = returned[d]

\* C2 witness: a domain's call has returned after two of its tasks ended in
\* a report entry and the others were discarded.
C2_TwoEntriesWitness ==
  \E d \in 1..MaxDomains :
    HasReturned(d) /\ Len(results[d]) = 2 /\ NumTasks(d) > 2

\* the classification the table gives for a status and marker presence;
\* "DISCARD" stands for no entry
TableClass(status, marker) ==
  IF status = 200 THEN (IF marker THEN S_PUBLIC_LISTING ELSE S_PUBLIC_ACCESS)
  ELSE IF status = 403 THEN S_PRIVATE
  ELSE IF status \in {301, 302, 307, 308} THEN S_REDIRECT
  ELSE IF status \in {400, 401, 500, 503} THEN S_ERROR
  ELSE <<"D", "I", "S", "C", "A", "R", "D">>

\* the bodies of Bodies that contain "ListBucketResult" or "Contents"
MarkerBodies ==
  { <<"<", "L", "i", "s", "t", "B", "u", "c", "k", "e", "t", "R", "e", "s", "u", "l", "t", ">">>,
    <<"{", "\"", "C", "o", "n", "t", "e", "n", "t", "s", "\"", ":", "[", "]", "}">> }

\* the classification of a returned value
ClassOf(r) == IF Truthy(r) THEN r[4] ELSE <<"D", "I", "S", "C", "A", "R", "D">>

\* C3: when no request failed, the classification check_endpoint returns is
\* the table's for the HEAD status and the presence of a listing marker in
\* the body, whatever the provider and candidate; 404 and unlisted statuses
\* give no entry.
C3_ClassificationTable ==
  (ppc = "returned" /\ pexc = <<>>) =>
    /\ ClassOf(pret) =
         TableClass(presp[1].status_code, plist # <<>> /\ plist[1].text \in MarkerBodies)
    /\ Truthy(pret) => pret[3] = PyInt(presp[1].status_code)

\* C3 witness: a 200 whose body holds a marker was classified for the
\* google provider.
C3_ListingWitness ==
  /\ ppc = "returned" /\ pexc = <<>>
  /\ pname[1] = "google"
  /\ presp[1].status_code = 200
  /\ plist[1].text \in MarkerBodies
  /\ pret[4] = S_PUBLIC_LISTING

\* C4: when a request of a probe task fails at the transport level,
\* check_endpoint returns an entry (label, URL, status, classification,
\* detail) whose classification is ERROR and whose detail is the error
\* message cut to at most 50 characters.
C4_TransportFailureEntry ==
  (ppc = "returned" /\ pexc # <<>>) =>
    /\ Truthy(pret)
    /\ pret[1] = pname
    /\ pret[2] = purl
    /\ pret[4] = S_ERROR
    /\ pret[5] = Slice(pexc[1], 50)
    /\ Len(pret[5]) <= 50

\* C5: the list generate_bucket_names returns has at most 100 members, no
\* member twice, and at least one member when the domain is not empty.
C5_BoundedDistinctNonEmpty ==
  /\ gpc \in {"ran1", "done"} =>
       /\ Len(names1) <= 100
       /\ NoDuplicates(names1)
       /\ gdomain # <<>> => Len(names1) > 0
  /\ gpc = "done" =>
       /\ Len(names2) <= 100
       /\ NoDuplicates(names2)
       /\ gdomain # <<>> => Len(names2) > 0

\* C5 witness: a domain with so many labels that the slice cut the list to
\* 100 members.
C5_TruncatedWitness ==
  /\ gpc = "done"
  /\ Len(Parts(gdomain)) >= OverflowLabels
  /\ Len(names1) = 100

\* C6: two runs of generate_bucket_names on the same domain return the same
\* candidates, also when the set outgrows 100 members and is cut.
C6_RunsAgree == gpc = "done" => Range(names1) = Range(names2)

\* the normalized domain with its last label removed
NormalizedWithoutTld(domain) ==
  DomainClean(Join(SubSeq(Parts(domain), 1, Len(Parts(domain)) - 1), <<".">>))

\* C9: for a domain of more than one label whose set has at most 100
\* members, the returned list holds the normalized domain with its last
\* label removed and every one of the 28 patterns applied to the full
\* normalized domain and to that stripped normalized form.
C9_StrippedFormNormalized ==
  (gpc \in {"ran1", "done"} /\ Len(Parts(gdomain)) > 1 /\ Cardinality(Names(gdomain)) <= 100) =>
    /\ NormalizedWithoutTld(gdomain) \in Range(names1)
    /\ \A k \in 1..Len(BUCKET_FORMATS) :
         /\ Format(BUCKET_FORMATS[k], DomainClean(gdomain)) \in Range(names1)
         /\ Format(BUCKET_FORMATS[k], NormalizedWithoutTld(gdomain)) \in Range(names1)

\* the statuses the claim names as printed
PrintedStatus(status) ==
  status.t = "int" /\ status.v \in {200, 301, 302, 307, 308, 403}

\* C7: main prints an accumulated entry exactly when its status is one of
\* the numbers 200, 301, 302, 307, 308, 403; a call that ended with status
\* 400, 401, 500 or 503 or with a transport failure returns an entry, which
\* is accumulated and not printed.
C7_PrintFilter ==
  /\ ppc = "rendered" =>
       /\ \A i \in 1..Len(presults) :
            presults[i] \in Range(pprinted) <=> PrintedStatus(presults[i][3])
       /\ Range(pprinted) \subseteq Range(presults)
       /\ Len(pprinted) = Cardinality({i \in 1..Len(presults) : PrintedStatus(presults[i][3])})
  /\ (ppc = "returned" /\ (pexc # <<>> \/ presp[1].status_code \in {400, 401, 500, 503})) =>
       /\ Truthy(pret)
       /\ ~PrintedStatus(pret[3])

\* C7 witness: the list rendered holds a transport-failure entry and a
\* status-500 entry, and nothing was printed.
C7_ErrorsKeptWitness ==
  /\ ppc = "rendered"
  /\ \E i, j \in 1..Len(presults) :
       /\ presults[i][3].t = "str"
       /\ presults[j][3] = PyInt(500)
  /\ pprinted = <<>>

\* C8: while a task of a later domain is submitted, every task of each
\* earlier domain has finished and its entries are in all_results; in
\* all_results the entries of an earlier domain precede those of a later.
C8_OneDomainAtATime ==
  /\ \A d1, d2 \in 1..MaxDomains :
       (d1 < d2 /\ submitted[d2] > 0) =>
         /\ started[d1] = NumTasks(d1)
         /\ running[d1] = 0
         /\ yielded[d1] = NumTasks(d1)
         /\ SelectSeq(all_results, LAMBDA e : DomainOf(e) = d1) = results[d1]
  /\ \A i, j \in 1..Len(all_results) :
       i < j => DomainOf(all_results[i]) <= DomainOf(all_results[j])

\* C8 witness: all_results holds an entry of the first domain followed by
\* an entry of the second.
C8_TwoDomainsWitness ==
  /\ Len(all_results) = 2
  /\ DomainOf(all_results[1]) < DomainOf(all_results[2])

\* C10: a call issues its HEAD first and once; a GET to the same URL
\* follows only a HEAD that returned 200, and once; after any other status
\* or a transport failure nothing more is issued.
C10_RequestOrder ==
  /\ ppc = "head" => preqs = <<>>
  /\ ppc \in {"get", "returned"} =>
       /\ Len(preqs) \in {1, 2}
       /\ preqs[1] = <<"HEAD", purl>>
       /\ Len(preqs) = 2 =>
            /\ preqs[2] = <<"GET", purl>>
            /\ presp # <<>>
            /\ presp[1].status_code = 200
       /\ (ppc = "get") => (Len(preqs) = 1 /\ presp[1].status_code = 200)
       /\ (ppc = "returned" /\ (presp = <<>> \/ presp[1].status_code # 200)) =>
            Len(preqs) = 1

\* C10 witness: a call returned after its GET failed; it was not retried.
C10_GetFailedWitness ==
  /\ ppc = "returned"
  /\ pexc # <<>>
  /\ Len(preqs) = 2

====
